---- MODULE Spec2Model ----
(***************************************************************************)
(* A model of the glyf table of rust-font-tools (src/src/glyf.rs): table   *)
(* construction (from_rc), composite flattening (flat_components,          *)
(* flatten_components) and bounds recomputation (recalc_bounds).           *)
(*                                                                         *)
(* Glyph indices are 0-based as in the source; the table is a TLA+         *)
(* sequence, so glyph index i is element i + 1 of the sequence.            *)
(***************************************************************************)
EXTENDS Integers, Sequences, FiniteSets, TLC

VARIABLES
    glyphs,     \* glyf.glyphs: the table the operations work on
    pre,        \* the table as it was when the last operation was called
    op,         \* the last operation called on the table
    status,     \* "ok": the operation returned; "panic": it panicked
    arg,        \* flat_components: <<glyph index, depth>> of the last call
    flat,       \* flat_components: the list the last call returned
    deepest,    \* flat_components: the deepest `depth` any nested call saw
    codec,      \* the glyph codec: a glyph, its bytes, and what they decode to
    reader,     \* from_rc: the reader, the offsets and the result
    gvar        \* the gvar deserializer: the table bytes and what they decode to

vars == <<glyphs, pre, op, status, arg, flat, deepest, codec, reader, gvar>>

(***************************************************************************)
(* Bounds of the model.                                                    *)
(***************************************************************************)
NumGlyphs == 3      \* glyphs in a table of the flattening and bounds runs
MaxPoints == 2      \* points of a glyph drawn for the codec
MaxRecords == 2     \* glyph records in the bytes from_rc reads
MaxOffsets == 3     \* entries of loca_offsets

(***************************************************************************)
(* Program constants.                                                      *)
(***************************************************************************)
DepthCap == 64

(***************************************************************************)
(* Small helpers on sequences and sets of integers.                        *)
(***************************************************************************)
\* the concatenation, in order, of the sequences of ss (taken in halves)
RECURSIVE Concat(_)
Concat(ss) ==
    IF Len(ss) = 0 THEN <<>>
    ELSE IF Len(ss) = 1 THEN ss[1]
    ELSE Concat(SubSeq(ss, 1, Len(ss) \div 2))
         \o Concat(SubSeq(ss, (Len(ss) \div 2) + 1, Len(ss)))

Range(s) == {s[k] : k \in DOMAIN s}

SetMin(S) == CHOOSE x \in S : \A y \in S : x <= y
SetMax(S) == CHOOSE x \in S : \A y \in S : x >= y

Max2(a, b) == IF a >= b THEN a ELSE b

(***************************************************************************)
(* Data model: Point, Component, Glyph.                                    *)
(***************************************************************************)
Point(x, y, on) == [x |-> x, y |-> y, on_curve |-> on]

\* kurbo::Affine as its six coefficients [a, b, c, d, e, f]
Affine(a, b, c, d, e, f) == <<a, b, c, d, e, f>>

Component(idx, t, mp, fl) ==
    [glyph_index |-> idx, transformation |-> t, match_points |-> mp, flags |-> fl]

Glyph(cs, comps, ov, x0, x1, y0, y1, ins) ==
    [contours |-> cs, components |-> comps, overlap |-> ov,
     xMin |-> x0, xMax |-> x1, yMin |-> y0, yMax |-> y1, instructions |-> ins]

\* the glyph from_rc pushes for a None entry
EmptyGlyph == Glyph(<<>>, <<>>, FALSE, 0, 0, 0, 0, <<>>)

has_components(g) == g.components # <<>>

is_empty(g) == g.components = <<>> /\ g.contours = <<>>

(***************************************************************************)
(* kurbo::Affine and kurbo::Rect, as glyf.rs uses them.                    *)
(***************************************************************************)
\* Affine * Affine (the `*` of line 76): the map "apply t2, then t1"
AffineMul(t1, t2) ==
    Affine(t1[1] * t2[1] + t1[3] * t2[2],
           t1[2] * t2[1] + t1[4] * t2[2],
           t1[1] * t2[3] + t1[3] * t2[4],
           t1[2] * t2[3] + t1[4] * t2[4],
           t1[1] * t2[5] + t1[3] * t2[6] + t1[5],
           t1[2] * t2[5] + t1[4] * t2[6] + t1[6])

\* Affine * Point
AffinePoint(t, x, y) == <<t[1] * x + t[3] * y + t[5], t[2] * x + t[4] * y + t[6]>>

Rect(x0, y0, x1, y1) == [x0 |-> x0, y0 |-> y0, x1 |-> x1, y1 |-> y1]

Min2(a, b) == IF a <= b THEN a ELSE b

\* Rect::from_points: the rectangle spanned by two points, normalised
RectFromPoints(p, q) ==
    Rect(Min2(p[1], q[1]), Min2(p[2], q[2]), Max2(p[1], q[1]), Max2(p[2], q[2]))

\* Rect::union (line 147)
RectUnion(r, s) ==
    Rect(Min2(r.x0, s.x0), Min2(r.y0, s.y0), Max2(r.x1, s.x1), Max2(r.y1, s.y1))

\* Affine::transform_rect_bbox (line 144): the box of the four mapped corners
transform_rect_bbox(t, r) ==
    RectUnion(RectFromPoints(AffinePoint(t, r.x0, r.y0), AffinePoint(t, r.x0, r.y1)),
              RectFromPoints(AffinePoint(t, r.x1, r.y0), AffinePoint(t, r.x1, r.y1)))

\* Glyph::bounds_rect (line 121)
bounds_rect(g) == Rect(g.xMin, g.yMin, g.xMax, g.yMax)

\* Glyph::set_bounds_rect (lines 132, 149)
set_bounds_rect(g, r) ==
    [g EXCEPT !.xMin = Min2(r.x0, r.x1), !.xMax = Max2(r.x0, r.x1),
              !.yMin = Min2(r.y0, r.y1), !.yMax = Max2(r.y0, r.y1)]

(***************************************************************************)
(* flat_components (lines 62-85).  The result of a call is a record: ok is *)
(* FALSE when the call panicked on an index outside the table; comps is    *)
(* the list returned; height is how many levels of nested calls the call   *)
(* made below itself.                                                      *)
(***************************************************************************)
FlatResult(ok, comps, h) == [ok |-> ok, comps |-> comps, height |-> h]

\* a guard that stops the recursion one level early
DepthExceeded_Early(depth) == depth >= DepthCap

\* line 64: the depth guard
DepthExceeded(depth) == depth > DepthCap

\* line 72: the index expression self.glyphs[comp.glyph_index as usize] panics
\* when the index is not below the length of the table
IndexInRange(gs, comp) == comp.glyph_index < Len(gs)

\* the product taken the other way around: child * parent
Compose_ChildFirst(comp, f) ==
    [f EXCEPT !.transformation = AffineMul(f.transformation, comp.transformation)]

\* line 76: f.transformation = comp.transformation * f.transformation
Compose(comp, f) ==
    [f EXCEPT !.transformation = AffineMul(comp.transformation, f.transformation)]

\* lines 75-79: the flattened children, each composed with the parent
Composed(comp, flattened) == [k \in DOMAIN flattened |-> Compose(comp, flattened[k])]

\* a push that doubles the component
PushLeaf_Twice(comp) == <<comp, comp>>

\* line 81: new_components.push(comp.clone())
PushLeaf(comp) == <<comp>>

\* lines 72-74: the lookup of the referenced glyph and, when it is composite,
\* the nested call at depth + 1, whose result for every glyph of the table
\* is in `deeper`; ok is FALSE when the lookup panics
Nested(gs, comp, deeper) ==
    IF IndexInRange(gs, comp) /\ has_components(gs[comp.glyph_index + 1])
    THEN [deeper[comp.glyph_index + 1] EXCEPT !.height = @ + 1]
    ELSE FlatResult(IndexInRange(gs, comp), <<>>, 0)

\* lines 73-82: what one component appends to new_components, given the
\* result r of its nested call
Contribution(gs, comp, r) ==
    IF has_components(gs[comp.glyph_index + 1])
    THEN Composed(comp, r.comps)
    ELSE PushLeaf(comp)

\* lines 71-84: the loop over g.components in list order.  sub[k] is the
\* result of the nested call of component k; the loop stops at the first
\* component whose lookup or nested call panics.
FlatLoop(gs, comps, sub) ==
    LET bad == {k \in DOMAIN comps : ~sub[k].ok}
        seen == IF bad = {} THEN DOMAIN comps ELSE 1..SetMin(bad)
        high == SetMax({0} \cup {sub[k].height : k \in seen})
    IN  IF bad # {} THEN FlatResult(FALSE, <<>>, high)
        ELSE FlatResult(TRUE,
                        Concat([k \in DOMAIN comps |-> Contribution(gs, comps[k], sub[k])]),
                        high)

\* lines 63-84: one call on glyph g at `depth`, its nested calls answered
\* by `deeper`
FlatBody(gs, g, depth, deeper) ==
    IF DepthExceeded(depth) THEN FlatResult(TRUE, <<>>, 0)
    ELSE FlatLoop(gs, g.components,
                  [k \in DOMAIN g.components |-> Nested(gs, g.components[k], deeper)])

\* The recursion of flat_components, evaluated level by level.  The result
\* of a call depends on the table, the glyph and the depth only, so the
\* results of all calls at one depth form a level: element i of a level is
\* what the call on glyph i - 1 of the table returns at that depth.
\* (Appending the empty list makes TLC evaluate the level in full, once.)
FlatLevel(gs, depth, deeper) ==
    [i \in DOMAIN gs |-> FlatBody(gs, gs[i], depth, deeper)] \o <<>>

\* The levels at depth, ..., depth + n - 1 stacked on the level `deeper` of
\* depth + n, all of them at depths where the guard of line 64 lets the call
\* proceed; the result is the level at `depth`.  The stack is built in
\* halves, deeper half first, which keeps the evaluation shallow.  A call
\* depends on its depth through the guard only, so once a level equals the
\* level below it every level above equals it too and is not evaluated
\* again.
RECURSIVE FlatLevels(_, _, _, _)
FlatLevels(gs, n, depth, deeper) ==
    IF n = 0 THEN deeper
    ELSE IF n = 1 THEN FlatLevel(gs, depth, deeper)
    ELSE LET h == n \div 2
             half == FlatLevels(gs, n - h, depth + h, deeper)
         IN  IF FlatLevel(gs, depth + h - 1, half) = half THEN half
             ELSE FlatLevels(gs, h, depth, half)

\* The level at `depth`: the recursion goes down to the first depth at
\* which the guard of line 64 stops it, DepthCap + 1.
FlatTable(gs, depth) ==
    IF depth > DepthCap
    THEN FlatLevel(gs, depth, <<>>)
    ELSE FlatLevels(gs, DepthCap + 1 - depth, depth, FlatLevel(gs, DepthCap + 1, <<>>))

\* flat_components(&self, g, depth), lines 62-85; deepest is the largest
\* depth a call of the recursion was entered with
flat_components(gs, g, depth) ==
    LET r == FlatBody(gs, g, depth, FlatTable(gs, depth + 1)) IN
    [ok |-> r.ok, comps |-> r.comps, deepest |-> depth + r.height]

(***************************************************************************)
(* flatten_components (lines 89-103).  Every flat list is computed against *)
(* the table as it is on entry (first loop); the replacements follow.      *)
(***************************************************************************)
\* a comparison that never finds a difference
NeedsFlattening_Never(g, fl) == FALSE

\* a comparison that always finds a difference
NeedsFlattening_Always(g, fl) == TRUE

\* line 96: g.components != flat
NeedsFlattening(g, fl) == g.components # fl

\* lines 91-99: the flat lists of the first loop, one call at depth 0 for
\* each glyph with components (ok is FALSE from the first call that panics)
FlatLists(gs) ==
    LET level1 == FlatTable(gs, 1) IN
    [id \in DOMAIN gs |->
        IF has_components(gs[id]) THEN FlatBody(gs, gs[id], 0, level1)
        ELSE FlatResult(TRUE, <<>>, 0)] \o <<>>

flatten_components(gs) ==
    LET flats == FlatLists(gs)
    IN  IF \E id \in DOMAIN gs : ~flats[id].ok
        THEN [ok |-> FALSE, glyphs |-> gs]
        ELSE [ok |-> TRUE,
              glyphs |-> [id \in DOMAIN gs |->
                  IF has_components(gs[id]) /\ NeedsFlattening(gs[id], flats[id].comps)
                  THEN [gs[id] EXCEPT !.components = flats[id].comps]
                  ELSE gs[id]]]

\* lines 90-99: the ids pushed to needs_flattening, in the order of the
\* table (ids count from 0); nothing is pushed when a call has panicked
needs_flattening(gs) ==
    LET flats == FlatLists(gs)
        Pushed(i) == has_components(gs[i + 1]) /\ NeedsFlattening(gs[i + 1], flats[i + 1].comps)
    IN  IF \E id \in DOMAIN gs : ~flats[id].ok THEN <<>>
        ELSE SelectSeq([id \in DOMAIN gs |-> id - 1], Pushed)

(***************************************************************************)
(* recalc_bounds (lines 106-152).                                          *)
(***************************************************************************)
\* line 112: g.contours.iter().flatten(): all points of all contours
AllPoints(g) == Concat(g.contours)

\* a minimum that always counts 0 in
MinOr0_ZeroIncluded(s) == SetMin(Range(s) \cup {0})

\* lines 113-116: min / max with unwrap_or(&0)
MinOr0(s) == IF s = <<>> THEN 0 ELSE SetMin(Range(s))
MaxOr0(s) == IF s = <<>> THEN 0 ELSE SetMax(Range(s))

\* lines 110-117: the simple-glyph pass on one glyph
SimpleBounds(g) ==
    IF has_components(g) THEN g
    ELSE LET pts == AllPoints(g)
             x_pts == [k \in DOMAIN pts |-> pts[k].x]
             y_pts == [k \in DOMAIN pts |-> pts[k].y]
         IN [g EXCEPT !.xMin = MinOr0(x_pts), !.xMax = MaxOr0(x_pts),
                      !.yMin = MinOr0(y_pts), !.yMax = MaxOr0(y_pts)]

\* line 130: comp.flags.contains(ComponentFlags::USE_MY_METRICS)
UsesMyMetrics(comp) == "USE_MY_METRICS" \in comp.flags

\* the last component with USE_MY_METRICS instead of the first
FirstMetrics_Last(comps) ==
    IF \E k \in DOMAIN comps : UsesMyMetrics(comps[k])
    THEN SetMax({k \in DOMAIN comps : UsesMyMetrics(comps[k])})
    ELSE 0

\* lines 129-136: the first component of the list with USE_MY_METRICS, or 0
FirstMetrics(comps) ==
    IF \E k \in DOMAIN comps : UsesMyMetrics(comps[k])
    THEN SetMin({k \in DOMAIN comps : UsesMyMetrics(comps[k])})
    ELSE 0

\* the box of the referenced glyph, not transformed
ComponentBox_Untransformed(boxes, comp) == boxes[comp.glyph_index + 1]

\* lines 142-145: one component's box
ComponentBox(boxes, comp) ==
    transform_rect_bbox(comp.transformation, boxes[comp.glyph_index + 1])

\* line 147: reduce(|a, b| a.union(b)) over a non-empty list.  Rect::union
\* takes minima and maxima, so it is associative and the fold from the left
\* equals the union of the unions of the two halves.
RECURSIVE ReduceUnion(_)
ReduceUnion(rs) ==
    IF Len(rs) = 1 THEN rs[1]
    ELSE RectUnion(ReduceUnion(SubSeq(rs, 1, Len(rs) \div 2)),
                   ReduceUnion(SubSeq(rs, (Len(rs) \div 2) + 1, Len(rs))))

\* a composite pass that passes no glyph by
SkippedAsSimple_Never(g) == FALSE

\* lines 126-128: if !g.has_components() { continue; }
SkippedAsSimple(g) == ~has_components(g)

\* lines 124-150: the composite pass on one glyph; ok is FALSE where the
\* code panics (an index outside boxes, unwrap of an empty reduce)
CompositeBounds(boxes, g) ==
    IF SkippedAsSimple(g) THEN [ok |-> TRUE, glyph |-> g]
    ELSE LET m == FirstMetrics(g.components) IN
         IF m # 0
         THEN IF g.components[m].glyph_index >= Len(boxes)
              THEN [ok |-> FALSE, glyph |-> g]
              ELSE [ok |-> TRUE,
                    glyph |-> set_bounds_rect(g, boxes[g.components[m].glyph_index + 1])]
         ELSE IF \E k \in DOMAIN g.components : g.components[k].glyph_index >= Len(boxes)
              THEN [ok |-> FALSE, glyph |-> g]
              ELSE LET rs == [k \in DOMAIN g.components |->
                                ComponentBox(boxes, g.components[k])]
                   IN IF rs = <<>> THEN [ok |-> FALSE, glyph |-> g]
                      ELSE [ok |-> TRUE,
                            glyph |-> set_bounds_rect(g, ReduceUnion(rs))]

recalc_bounds(gs) ==
    LET fl == flatten_components(gs) IN
    IF ~fl.ok THEN [ok |-> FALSE, glyphs |-> gs]
    ELSE LET simple == [id \in DOMAIN gs |-> SimpleBounds(fl.glyphs[id])]
             boxes == [id \in DOMAIN gs |-> bounds_rect(simple[id])]
             done == [id \in DOMAIN gs |-> CompositeBounds(boxes, simple[id])]
             bad == {id \in DOMAIN gs : ~done[id].ok}
         IN IF bad # {}
            THEN [ok |-> FALSE,
                  glyphs |-> [id \in DOMAIN gs |->
                      IF id < SetMin(bad) THEN done[id].glyph ELSE simple[id]]]
            ELSE [ok |-> TRUE, glyphs |-> [id \in DOMAIN gs |-> done[id].glyph]]

(***************************************************************************)
(* The binary form of a simple glyph (the Glyph serializer and             *)
(* deserializer of the glyph module, written after section 4.1 and the     *)
(* byte-level contract of the specification, and after the bytes of the    *)
(* test glyf_de).  Bytes are numbers in 0..255; a read position is the     *)
(* number of bytes before it.                                              *)
(***************************************************************************)
ON_CURVE_POINT == 1
X_SHORT_VECTOR == 2
Y_SHORT_VECTOR == 4
REPEAT_FLAG == 8
X_IS_SAME_OR_POSITIVE == 16
Y_IS_SAME_OR_POSITIVE == 32
OVERLAP_SIMPLE == 64

\* the largest delta the one-byte form holds
ShortMax == 255

HasBit(f, bit) == (f \div bit) % 2 = 1

Abs(n) == IF n < 0 THEN -n ELSE n

\* big-endian 16-bit fields
U16Bytes(n) == <<n \div 256, n % 256>>
I16Bytes(n) == U16Bytes((n + 65536) % 65536)
ToI16(v) == IF v >= 32768 THEN v - 65536 ELSE v

\* the running deltas of a list of absolute coordinates, from 0
Deltas(vs) == [k \in DOMAIN vs |-> IF k = 1 THEN vs[1] ELSE vs[k] - vs[k - 1]]

\* the flag bits of one coordinate delta: zero delta "same", no byte; a
\* delta that fits one byte short, with its sign in the flag; else two bytes
DeltaFlag(d, short, same) ==
    IF d = 0 THEN same
    ELSE IF Abs(d) <= ShortMax THEN short + (IF d > 0 THEN same ELSE 0)
    ELSE 0

DeltaBytes(d) ==
    IF d = 0 THEN <<>>
    ELSE IF Abs(d) <= ShortMax THEN <<Abs(d)>>
    ELSE I16Bytes(d)

\* the contour end indices: the index of the last point of each contour
EndPoints(cs) ==
    [k \in DOMAIN cs |-> Len(Concat(SubSeq(cs, 1, k))) - 1]

\* the serializer, simple glyphs: one flag byte for every point
EncodeGlyph(g) ==
    LET pts == Concat(g.contours)
        dx == Deltas([k \in DOMAIN pts |-> pts[k].x])
        dy == Deltas([k \in DOMAIN pts |-> pts[k].y])
        flag(k) == (IF pts[k].on_curve THEN ON_CURVE_POINT ELSE 0)
                   + DeltaFlag(dx[k], X_SHORT_VECTOR, X_IS_SAME_OR_POSITIVE)
                   + DeltaFlag(dy[k], Y_SHORT_VECTOR, Y_IS_SAME_OR_POSITIVE)
                   + (IF k = 1 /\ g.overlap THEN OVERLAP_SIMPLE ELSE 0)
        ends == EndPoints(g.contours)
    IN  I16Bytes(Len(g.contours))
        \o I16Bytes(g.xMin) \o I16Bytes(g.yMin) \o I16Bytes(g.xMax) \o I16Bytes(g.yMax)
        \o Concat([k \in DOMAIN ends |-> U16Bytes(ends[k])])
        \o U16Bytes(Len(g.instructions)) \o g.instructions
        \o [k \in DOMAIN pts |-> flag(k)]
        \o Concat([k \in DOMAIN pts |-> DeltaBytes(dx[k])])
        \o Concat([k \in DOMAIN pts |-> DeltaBytes(dy[k])])

\* The result of a read: ok is FALSE when the bytes ran out; p is the read
\* position after it; v is the value read.
Read(ok, p, v) == [ok |-> ok, p |-> p, v |-> v]

ReadU8(b, p) ==
    IF p + 1 <= Len(b) THEN Read(TRUE, p + 1, b[p + 1]) ELSE Read(FALSE, p, 0)

ReadU16(b, p) ==
    IF p + 2 <= Len(b) THEN Read(TRUE, p + 2, b[p + 1] * 256 + b[p + 2])
    ELSE Read(FALSE, p, 0)

ReadI16(b, p) ==
    LET r == ReadU16(b, p) IN Read(r.ok, r.p, ToI16(r.v))

\* n fields of 16 bits, unsigned or signed
RECURSIVE ReadFields(_, _, _, _)
ReadFields(b, p, n, signed) ==
    IF n = 0 THEN Read(TRUE, p, <<>>)
    ELSE LET r == IF signed THEN ReadI16(b, p) ELSE ReadU16(b, p) IN
         IF ~r.ok THEN Read(FALSE, r.p, <<>>)
         ELSE LET rest == ReadFields(b, r.p, n - 1, signed)
              IN  Read(rest.ok, rest.p, <<r.v>> \o rest.v)

ReadBytes(b, p, n) ==
    IF p + n <= Len(b) THEN Read(TRUE, p + n, SubSeq(b, p + 1, p + n))
    ELSE Read(FALSE, p, <<>>)

\* the flags of n points: a flag byte with REPEAT_FLAG is followed by a
\* count of further points that have the same flag
RECURSIVE ReadFlags(_, _, _)
ReadFlags(b, p, n) ==
    IF n <= 0 THEN Read(TRUE, p, <<>>)
    ELSE LET f == ReadU8(b, p) IN
         IF ~f.ok THEN Read(FALSE, f.p, <<>>)
         ELSE IF HasBit(f.v, REPEAT_FLAG)
         THEN LET c == ReadU8(b, f.p) IN
              IF ~c.ok THEN Read(FALSE, c.p, <<>>)
              ELSE LET run == Min2(c.v + 1, n)
                       rest == ReadFlags(b, c.p, n - run)
                   IN  Read(rest.ok, rest.p, [k \in 1..run |-> f.v] \o rest.v)
         ELSE LET rest == ReadFlags(b, f.p, n - 1)
              IN  Read(rest.ok, rest.p, <<f.v>> \o rest.v)

\* one coordinate delta under its flag
ReadDelta(b, p, f, short, same) ==
    IF HasBit(f, short)
    THEN LET r == ReadU8(b, p)
         IN  Read(r.ok, r.p, IF HasBit(f, same) THEN r.v ELSE -r.v)
    ELSE IF HasBit(f, same) THEN Read(TRUE, p, 0)
    ELSE ReadI16(b, p)

\* the absolute coordinates of the points whose flags are fs, from `from`
RECURSIVE ReadCoords(_, _, _, _, _, _)
ReadCoords(b, p, fs, short, same, from) ==
    IF fs = <<>> THEN Read(TRUE, p, <<>>)
    ELSE LET d == ReadDelta(b, p, fs[1], short, same) IN
         IF ~d.ok THEN Read(FALSE, d.p, <<>>)
         ELSE LET rest == ReadCoords(b, d.p, Tail(fs), short, same, from + d.v)
              IN  Read(rest.ok, rest.p, <<from + d.v>> \o rest.v)

\* the points cut into contours at the end indices
Contours(pts, ends) ==
    [k \in DOMAIN ends |->
        SubSeq(pts, (IF k = 1 THEN 0 ELSE ends[k - 1] + 1) + 1, ends[k] + 1)]

\* The deserializer, simple glyphs, from read position p of b, field after
\* field.  On a failure no glyph is returned and p is where the bytes ran
\* out.
NoGlyph(p) == Read(FALSE, p, EmptyGlyph)

\* the points and the glyph, all fields read
BuildGlyph(box, ends, ins, fs, xs, ys) ==
    LET pts == [k \in DOMAIN fs |-> Point(xs.v[k], ys.v[k], HasBit(fs[k], ON_CURVE_POINT))]
    IN  Read(TRUE, ys.p,
             Glyph(Contours(pts, ends), <<>>, HasBit(fs[1], OVERLAP_SIMPLE),
                   box[1], box[3], box[2], box[4], ins))

DecodeYs(b, box, ends, ins, fs, xs, ys) ==
    IF ~ys.ok THEN NoGlyph(ys.p) ELSE BuildGlyph(box, ends, ins, fs, xs, ys)

DecodeXs(b, box, ends, ins, fs, xs) ==
    IF ~xs.ok THEN NoGlyph(xs.p)
    ELSE DecodeYs(b, box, ends, ins, fs, xs,
                  ReadCoords(b, xs.p, fs, Y_SHORT_VECTOR, Y_IS_SAME_OR_POSITIVE, 0))

DecodeFlags(b, box, ends, ins, fs) ==
    IF ~fs.ok THEN NoGlyph(fs.p)
    ELSE DecodeXs(b, box, ends, ins, fs.v,
                  ReadCoords(b, fs.p, fs.v, X_SHORT_VECTOR, X_IS_SAME_OR_POSITIVE, 0))

DecodeInstructions(b, box, ends, ins) ==
    IF ~ins.ok THEN NoGlyph(ins.p)
    ELSE DecodeFlags(b, box, ends, ins.v, ReadFlags(b, ins.p, ends[Len(ends)] + 1))

DecodeLength(b, box, ends, ilen) ==
    IF ~ilen.ok THEN NoGlyph(ilen.p)
    ELSE DecodeInstructions(b, box, ends, ReadBytes(b, ilen.p, ilen.v))

DecodeEnds(b, box, ends) ==
    IF ~ends.ok THEN NoGlyph(ends.p)
    ELSE DecodeLength(b, box, ends.v, ReadU16(b, ends.p))

DecodeBox(b, nc, box) ==
    IF ~box.ok THEN NoGlyph(box.p)
    ELSE DecodeEnds(b, box.v, ReadFields(b, box.p, nc, FALSE))

DecodeContourCount(b, nc) ==
    IF ~nc.ok \/ nc.v < 1 THEN NoGlyph(nc.p)
    ELSE DecodeBox(b, nc.v, ReadFields(b, nc.p, 4, TRUE))

DecodeGlyph(b, p) == DecodeContourCount(b, ReadI16(b, p))

\* the bytes of the test with the sign bit of the third point's x delta set
TestBytes_SignSet ==
    <<0, 2, 0, 20, 0, 0, 2, 55, 1, 34, 0, 2, 0, 14,
       0, 0, 51, 51, 55, 36, 54, 51, 50, 22, 21, 20, 6, 35,
       34, 38, 53, 20, 200, 120, 1, 30, 54, 37, 37, 53, 53, 37,
       37, 54, 200, 37, 53, 53, 37, 37, 54, 54, 37 >>

\* the bytes and the glyph of the test glyf_de
TestBytes ==
    <<0, 2, 0, 20, 0, 0, 2, 55, 1, 34, 0, 2, 0, 14,
       0, 0, 51, 51, 39, 36, 54, 51, 50, 22, 21, 20, 6, 35,
       34, 38, 53, 20, 200, 120, 1, 30, 54, 37, 37, 53, 53, 37,
       37, 54, 200, 37, 53, 53, 37, 37, 54, 54, 37 >>

TestGlyph ==
    Glyph(<< << Point(20, 0, TRUE),
           Point(220, 0, TRUE),
           Point(100, 200, TRUE) >>,
          << Point(386, 237, FALSE),
           Point(440, 290, FALSE),
           Point(477, 290, TRUE),
           Point(514, 290, FALSE),
           Point(567, 237, FALSE),
           Point(567, 200, TRUE),
           Point(567, 163, FALSE),
           Point(514, 109, FALSE),
           Point(477, 109, TRUE),
           Point(440, 109, FALSE),
           Point(386, 163, FALSE),
           Point(386, 200, TRUE) >> >>,
          <<>>, FALSE, 20, 567, 0, 290, <<>>)

(***************************************************************************)
(* from_rc and from_bytes (lines 25-56).  A ReaderContext is its bytes and *)
(* its read position ptr; an Option<u32> is None or Some(o).               *)
(***************************************************************************)
None == <<>>
Some(o) == <<o>>

\* a push at the front of the list
PushGlyph_InFront(res, g) == <<g>> \o res

\* lines 36 and 50: res.glyphs.push(...)
PushGlyph(res, g) == Append(res, g)

\* what from_rc returns and where it leaves the reader: result is "Ok" with
\* the table, or "Err" (line 49, the `?`) with no table
Returned(result, gs, ptr) == [result |-> result, glyphs |-> gs, ptr |-> ptr]

\* lines 34-55: the loop over the offsets that are left, the reader at ptr
RECURSIVE FromRcLoop(_, _, _, _)
FromRcLoop(input, ptr, items, res) ==
    IF items = <<>> THEN Returned("Ok", res, ptr)
    ELSE IF items[1] = None
    THEN FromRcLoop(input, ptr, Tail(items), PushGlyph(res, EmptyGlyph))
    ELSE LET old == ptr                               \* line 47
             de == DecodeGlyph(input, items[1][1])    \* lines 48-49
         IN  IF ~de.ok THEN Returned("Err", <<>>, de.p)
             ELSE FromRcLoop(input, old, Tail(items), PushGlyph(res, de.v))  \* 50-51

from_rc(c, loca_offsets) == FromRcLoop(c.input, c.ptr, loca_offsets, <<>>)

\* lines 25-27: a new reader on the bytes, at position 0
ReaderContextNew(input) == [input |-> input, ptr |-> 0]

from_bytes(input, loca_offsets) == from_rc(ReaderContextNew(input), loca_offsets)

(***************************************************************************)
(* The tables the operations are run on.  Glyph and glyf are public        *)
(* structs with public fields, so a caller can build any table.  The       *)
(* tables drawn here have NumGlyphs >= 3 glyphs.  Components come in three *)
(* styles that differ in every field.                                      *)
(***************************************************************************)
StyleT(s) ==
    CASE s = 1 -> Affine(1, 0, 0, 1, 2, 1)      \* a translation
      [] s = 2 -> Affine(0, 1, -1, 0, 0, 0)     \* a quarter turn
      [] s = 3 -> Affine(-1, 0, 0, 1, 1, 0)     \* a mirror image, moved

StyleFlags(s) ==
    CASE s = 1 -> {"ARGS_ARE_XY_VALUES"}
      [] s = 2 -> {"ROUND_XY_TO_GRID"}
      [] s = 3 -> {"ARGS_ARE_XY_VALUES", "USE_MY_METRICS"}

StyleMatch(s) == IF s = 2 THEN <<1, 0>> ELSE "None"

Styles == {1, 2, 3}
StylePairs == {<<1, 2>>, <<2, 3>>, <<3, 3>>}

Comp(j, s) == Component(j, StyleT(s), StyleMatch(s), StyleFlags(s))

\* the stored box of a composite glyph before any recalculation: stale
Composite(comps) == Glyph(<<>>, comps, FALSE, 5, 6, 7, 8, <<>>)

\* a glyph with two contours and a stale stored box
Outline ==
    Glyph(<< <<Point(1, 2, TRUE), Point(3, -1, FALSE)>>, <<Point(-2, 0, TRUE)>> >>,
          <<>>, FALSE, 9, 9, 9, 9, <<>>)

SimpleGlyphs ==
    { EmptyGlyph, Outline,
      Glyph(<< <<Point(0, 4, TRUE)>> >>, <<>>, TRUE, 0, 0, 4, 4, <<7>>) }

Last == NumGlyphs - 1

\* glyph 0 and glyph 1 are given, the others are drawn from `rest`
Table(g0, g1, rest) ==
    [i \in 1..NumGlyphs |-> IF i = 1 THEN g0 ELSE IF i = 2 THEN g1 ELSE rest[i]]

\* any simple glyph last, the empty glyph or the outline before it
Leaves ==
    { rest \in [3..NumGlyphs -> SimpleGlyphs] :
        \A i \in 3..(NumGlyphs - 1) : rest[i] \in {EmptyGlyph, Outline} }
PlainLeaves == [i \in 3..NumGlyphs |-> Outline]

\* Tables without a reference cycle: glyph 0 references glyphs after it,
\* glyph 1 references glyphs after it, the others are simple.
OuterGlyphs ==
    { Outline }
    \cup { Composite(<<Comp(j, s)>>) : j \in 1..Last, s \in Styles }
    \cup { Composite(<<Comp(1, sp[1]), Comp(Last, sp[2])>>) : sp \in StylePairs }
    \cup { Composite(<<Comp(Last, sp[1]), Comp(1, sp[2])>>) : sp \in StylePairs }

InnerGlyphs ==
    SimpleGlyphs
    \cup { Composite(<<Comp(j, s)>>) : j \in 2..Last, s \in Styles }
    \cup { Composite(<<Comp(2, sp[1]), Comp(Last, sp[2])>>) : sp \in StylePairs }

AcyclicTables ==
    { Table(g0, g1, rest) : g0 \in OuterGlyphs, g1 \in InnerGlyphs, rest \in Leaves }

\* Tables with a reference cycle: a glyph that references itself, two
\* glyphs that reference each other, such a cycle with a component that
\* leaves it for a simple glyph, and a glyph outside the cycle that
\* references a glyph on it.
CyclicTables ==
    { Table(Composite(<<Comp(0, s)>>), g1, PlainLeaves) :
        s \in Styles, g1 \in {Outline, Composite(<<Comp(0, 1)>>)} }
    \cup { Table(Composite(<<Comp(1, s)>>), Composite(<<Comp(0, t)>>), PlainLeaves) :
        s \in Styles, t \in Styles }
    \cup { Table(Composite(<<Comp(0, s), Comp(Last, t)>>), Outline, PlainLeaves) :
        s \in Styles, t \in Styles }
    \cup { Table(Composite(<<Comp(Last, s), Comp(0, t)>>), EmptyGlyph, PlainLeaves) :
        s \in Styles, t \in Styles }
    \cup { Table(Composite(<<Comp(1, s), Comp(Last, t)>>), Composite(<<Comp(0, s)>>),
                 PlainLeaves) : s \in Styles, t \in Styles }
    \cup { Table(Composite(<<Comp(1, s), Comp(Last, 3)>>),
                 Composite(<<Comp(1, 1), Comp(Last, t)>>), PlainLeaves) :
        s \in Styles, t \in Styles }

\* Tables with a component whose index is outside the table.
OutOfRangeTables ==
    { Table(Composite(<<Comp(NumGlyphs, 1)>>), Outline, PlainLeaves),
      Table(Composite(<<Comp(Last, 2), Comp(NumGlyphs + 1, 3)>>), Outline, PlainLeaves),
      Table(Composite(<<Comp(1, 1)>>), Composite(<<Comp(NumGlyphs, 2)>>), PlainLeaves),
      Table(Outline, Composite(<<Comp(NumGlyphs, 3)>>), PlainLeaves) }

Tables == AcyclicTables \cup CyclicTables \cup OutOfRangeTables

(***************************************************************************)
(* The state machine of a table: a caller builds a table, calls the        *)
(* operations that rewrite it, and may end by reading a flat list off it   *)
(* with flat_components.  A panic ends the run.                            *)
(***************************************************************************)
NoFlat == <<>>
NoCodec == [phase |-> "none"]
NoReader == [phase |-> "none"]
NoGvar == [phase |-> "none"]

TableInit ==
    /\ glyphs \in Tables
    /\ pre = glyphs
    /\ op = "new"
    /\ status = "ok"
    /\ arg = <<0, 0>>
    /\ flat = NoFlat
    /\ deepest = 0
    /\ codec = NoCodec
    /\ reader = NoReader
    /\ gvar = NoGvar

Running == status = "ok" /\ op # "flat_components"

\* glyf.flat_components(&glyf.glyphs[i], depth): reads the table only
CallFlatComponents(i, depth) ==
    /\ Running
    /\ LET r == flat_components(glyphs, glyphs[i + 1], depth) IN
        /\ status' = IF r.ok THEN "ok" ELSE "panic"
        /\ flat' = r.comps
        /\ deepest' = r.deepest
    /\ arg' = <<i, depth>>
    /\ op' = "flat_components"
    /\ pre' = glyphs
    /\ UNCHANGED <<glyphs, codec, reader, gvar>>

\* glyf.flatten_components()
CallFlattenComponents ==
    /\ Running
    /\ LET r == flatten_components(glyphs) IN
        /\ status' = IF r.ok THEN "ok" ELSE "panic"
        /\ glyphs' = r.glyphs
    /\ op' = "flatten_components"
    /\ pre' = glyphs
    /\ arg' = <<0, 0>>
    /\ flat' = needs_flattening(glyphs)
    /\ deepest' = 0
    /\ UNCHANGED <<codec, reader, gvar>>

\* glyf.recalc_bounds()
CallRecalcBounds ==
    /\ Running
    /\ LET r == recalc_bounds(glyphs) IN
        /\ status' = IF r.ok THEN "ok" ELSE "panic"
        /\ glyphs' = r.glyphs
    /\ op' = "recalc_bounds"
    /\ pre' = glyphs
    /\ arg' = <<0, 0>>
    /\ flat' = NoFlat
    /\ deepest' = 0
    /\ UNCHANGED <<codec, reader, gvar>>

TableNext ==
    \/ \E i \in 0..(NumGlyphs - 1), depth \in {0, DepthCap + 1} :
          CallFlatComponents(i, depth)
    \/ CallFlattenComponents
    \/ CallRecalcBounds

TableSpec == TableInit /\ [][TableNext]_vars

(***************************************************************************)
(* Reference paths, stated on the table itself.  A reference path from a   *)
(* glyph g is a sequence of component positions <<k1, ..., kn>>: k1 is a   *)
(* position in g.components, every component on the path but the last      *)
(* references a glyph with components, in which the next position is       *)
(* taken, and the last component references a glyph without components.    *)
(***************************************************************************)
\* the glyph a component references
Referenced(gs, comp) == gs[comp.glyph_index + 1]

\* glyph j is referenced by a component of glyph i (both positions in gs)
Refs(gs, i, j) ==
    \E k \in DOMAIN gs[i].components : gs[i].components[k].glyph_index + 1 = j

\* the glyphs reached from glyph i along at least one and at most n references
RECURSIVE ReachedIn(_, _, _)
ReachedIn(gs, i, n) ==
    IF n = 0 THEN {}
    ELSE LET near == {j \in DOMAIN gs : Refs(gs, i, j)}
         IN  near \cup UNION {ReachedIn(gs, j, n - 1) : j \in near}

\* no glyph of the table is reached from itself, and every index is in range
Acyclic(gs) ==
    /\ \A i \in DOMAIN gs : \A k \in DOMAIN gs[i].components :
          gs[i].components[k].glyph_index < Len(gs)
    /\ \A i \in DOMAIN gs : i \notin ReachedIn(gs, i, Len(gs))

\* the reference paths from g with at most n components
RECURSIVE PathsFrom(_, _, _)
PathsFrom(gs, g, n) ==
    IF n = 0 THEN {}
    ELSE UNION { IF has_components(Referenced(gs, g.components[k]))
                 THEN { <<k>> \o q : q \in PathsFrom(gs, Referenced(gs, g.components[k]), n - 1) }
                 ELSE { <<k>> }
                 : k \in DOMAIN g.components }

\* the components along the path p from g, outermost first
RECURSIVE PathComps(_, _, _)
PathComps(gs, g, p) ==
    IF p = <<>> THEN <<>>
    ELSE <<g.components[p[1]]>>
         \o PathComps(gs, Referenced(gs, g.components[p[1]]), Tail(p))

\* depth-first, left-to-right order of two paths: at the first position
\* where they differ, p takes the earlier component
Before(p, q) ==
    \E k \in 1..Min2(Len(p), Len(q)) :
        /\ p[k] < q[k]
        /\ \A j \in 1..(k - 1) : p[j] = q[j]

\* the place of path p among the paths P in that order
Place(P, p) == 1 + Cardinality({q \in P : Before(q, p)})

\* the product t1 * t2 * ... * tn of the transformations of cs, taken from
\* the left
RECURSIVE Product(_)
Product(cs) ==
    IF Len(cs) = 1 THEN cs[1].transformation
    ELSE AffineMul(Product(SubSeq(cs, 1, Len(cs) - 1)), cs[Len(cs)].transformation)

IsTranslation(t) == t[1] = 1 /\ t[2] = 0 /\ t[3] = 0 /\ t[4] = 1

RECURSIVE SumOf(_, _)
SumOf(cs, n) == IF cs = <<>> THEN 0 ELSE cs[1].transformation[n] + SumOf(Tail(cs), n)

\* the last call was flat_components on glyph i at depth d, and it returned
Flattened(i, d) == op = "flat_components" /\ status = "ok" /\ arg = <<i, d>>

\* glyph i's only component references glyph j and glyph j's only component
\* references glyph i (j = i: the glyph references itself)
OnlyEachOther(gs, i, j) ==
    /\ Len(gs[i + 1].components) = 1 /\ gs[i + 1].components[1].glyph_index = j
    /\ Len(gs[j + 1].components) = 1 /\ gs[j + 1].components[1].glyph_index = i

Indices == 0..(NumGlyphs - 1)

(***************************************************************************)
(* C4.  Flattening depth guard: flat_components at depth 0 on a glyph A    *)
(* whose only component references B, whose only component references A    *)
(* (B may be A itself), returns the empty list; a call entered at a depth  *)
(* greater than 64 returns no components; the recursion is never entered   *)
(* deeper than depth 65, where the guard stops it, and on such a cycle it  *)
(* is entered at every depth up to there.                                  *)
(***************************************************************************)
C4_DepthGuard ==
    op = "flat_components" /\ status = "ok" =>
        /\ deepest <= DepthCap + 1
        /\ arg[2] > DepthCap => flat = <<>> /\ deepest = arg[2]
        /\ \A j \in Indices :
              arg[2] = 0 /\ OnlyEachOther(glyphs, arg[1], j) =>
                  flat = <<>> /\ deepest = DepthCap + 1

C4_Witness ==
    /\ Flattened(0, 0)
    /\ OnlyEachOther(glyphs, 0, 1)
    /\ flat = <<>>
    /\ deepest = DepthCap + 1

\* every component of every glyph of gs references a glyph without components
SingleLevel(gs) ==
    \A i \in DOMAIN gs : \A k \in DOMAIN gs[i].components :
        ~has_components(Referenced(gs, gs[i].components[k]))

(***************************************************************************)
(* C5.  Single level after flattening: every component flat_components     *)
(* returns references a glyph without components; after                    *)
(* flatten_components every component of every glyph references a glyph    *)
(* that has no components, in the table as it was before the call and in   *)
(* the table as it is after it; flatten_components on a table that is      *)
(* single-level leaves it as it is, and flattening the flattened table     *)
(* again changes nothing.                                                  *)
(***************************************************************************)
C5_SingleLevel ==
    /\ op = "flat_components" /\ status = "ok" =>
          \A k \in DOMAIN flat : ~has_components(Referenced(glyphs, flat[k]))
    /\ op = "flatten_components" /\ status = "ok" =>
          /\ SingleLevel(glyphs)
          /\ \A i \in DOMAIN glyphs : \A k \in DOMAIN glyphs[i].components :
                ~has_components(Referenced(pre, glyphs[i].components[k]))
          /\ SingleLevel(pre) => glyphs = pre
          /\ flatten_components(glyphs) = [ok |-> TRUE, glyphs |-> glyphs]

\* a table with a nested composite was flattened, and flattened once more
C5_Witness ==
    /\ op = "flatten_components" /\ status = "ok"
    /\ glyphs = pre
    /\ Len(glyphs[1].components) = 3
    /\ SingleLevel(glyphs)

(***************************************************************************)
(* C6.  Flattening keeps every leaf: in a table without reference cycles   *)
(* flat_components(g, 0) returns one component for each reference path     *)
(* from g, in depth-first left-to-right order, with the glyph_index, flags *)
(* and match_points of the last component of the path; a component that    *)
(* references a glyph without components directly is returned as it is.    *)
(***************************************************************************)
C6_EveryLeafInOrder ==
    op = "flat_components" /\ status = "ok" /\ arg[2] = 0 /\ Acyclic(glyphs) =>
        LET g == glyphs[arg[1] + 1]
            P == PathsFrom(glyphs, g, NumGlyphs)
        IN  /\ Len(flat) = Cardinality(P)
            /\ \A p \in P :
                  LET cs == PathComps(glyphs, g, p)
                      last == cs[Len(cs)]
                      f == flat[Place(P, p)]
                  IN  /\ f.glyph_index = last.glyph_index
                      /\ f.flags = last.flags
                      /\ f.match_points = last.match_points
                      /\ Len(p) = 1 => f = last

\* glyph 0 has a leaf first and a nested composite with two leaves second
C6_Witness ==
    /\ Flattened(0, 0)
    /\ Acyclic(glyphs)
    /\ PathsFrom(glyphs, glyphs[1], NumGlyphs) = {<<1>>, <<2, 1>>, <<2, 2>>}
    /\ Len(flat) = 3
    /\ flat[1] = glyphs[1].components[1]
    /\ flat[3].glyph_index = glyphs[2].components[2].glyph_index

(***************************************************************************)
(* C7.  Transform composition order: in a table without reference cycles   *)
(* the transformation of the component flat_components(g, 0) returns for a *)
(* reference path c1, ..., cn is the product c1 * c2 * ... * cn; when all  *)
(* of them are translations it is the translation by the sum of their      *)
(* offsets.                                                                *)
(***************************************************************************)
C7_ParentTimesChild ==
    op = "flat_components" /\ status = "ok" /\ arg[2] = 0 /\ Acyclic(glyphs) =>
        LET g == glyphs[arg[1] + 1]
            P == PathsFrom(glyphs, g, NumGlyphs)
        IN  \A p \in P :
                LET cs == PathComps(glyphs, g, p)
                    t == flat[Place(P, p)].transformation
                IN  /\ t = Product(cs)
                    /\ (\A k \in DOMAIN cs : IsTranslation(cs[k].transformation)) =>
                          t = Affine(1, 0, 0, 1, SumOf(cs, 5), SumOf(cs, 6))

\* a path of a quarter turn and a translation, in that order: the two
\* products differ
C7_Witness ==
    /\ Flattened(0, 0)
    /\ Acyclic(glyphs)
    /\ Len(glyphs[1].components) = 1
    /\ glyphs[1].components[1].transformation = StyleT(2)
    /\ glyphs[1].components[1].glyph_index = 1
    /\ Len(glyphs[2].components) = 1
    /\ glyphs[2].components[1].transformation = StyleT(1)
    /\ Len(flat) = 1
    /\ flat[1].transformation = AffineMul(StyleT(2), StyleT(1))
    /\ flat[1].transformation # AffineMul(StyleT(1), StyleT(2))

\* the stored box of a glyph as <<xMin, yMin, xMax, yMax>>
Box(g) == <<g.xMin, g.yMin, g.xMax, g.yMax>>

\* the points of a glyph, as a set
PointsOf(g) == UNION {Range(g.contours[k]) : k \in DOMAIN g.contours}

\* the smallest box around the points of a glyph; all zero without points
TightBox(g) ==
    LET xs == {pt.x : pt \in PointsOf(g)}
        ys == {pt.y : pt \in PointsOf(g)}
    IN  IF PointsOf(g) = {} THEN <<0, 0, 0, 0>>
        ELSE <<SetMin(xs), SetMin(ys), SetMax(xs), SetMax(ys)>>

HasMetricsFlag(g, k) == "USE_MY_METRICS" \in g.components[k].flags

\* the images of the four corners of the stored box of the glyph that
\* component k of g references, under the transformation of the component
Corners(gs, g, k) ==
    LET r == Referenced(gs, g.components[k])
    IN  { AffinePoint(g.components[k].transformation, x, y) :
            x \in {r.xMin, r.xMax}, y \in {r.yMin, r.yMax} }

AllCorners(gs, g) == UNION {Corners(gs, g, k) : k \in DOMAIN g.components}

Recalculated == op = "recalc_bounds" /\ status = "ok"

(***************************************************************************)
(* C8.  USE_MY_METRICS rule: after recalc_bounds a glyph with components,  *)
(* one of which has USE_MY_METRICS set, has the box of the glyph that the  *)
(* first such component of its list references, as that glyph has it after *)
(* the same call, not transformed.                                         *)
(***************************************************************************)
C8_UseMyMetrics ==
    Recalculated =>
        \A i \in DOMAIN glyphs : \A k \in DOMAIN glyphs[i].components :
            /\ HasMetricsFlag(glyphs[i], k)
            /\ \A j \in 1..(k - 1) : ~HasMetricsFlag(glyphs[i], j)
            => Box(glyphs[i]) = Box(Referenced(glyphs, glyphs[i].components[k]))

\* glyph 0 has two components with the flag that reference glyphs with
\* different boxes, and the transformed box of the first is another box
C8_Witness ==
    /\ Recalculated
    /\ Len(glyphs[1].components) = 2
    /\ HasMetricsFlag(glyphs[1], 1) /\ HasMetricsFlag(glyphs[1], 2)
    /\ Box(Referenced(glyphs, glyphs[1].components[1]))
          # Box(Referenced(glyphs, glyphs[1].components[2]))
    /\ Box(glyphs[1]) = Box(Referenced(glyphs, glyphs[1].components[1]))
    /\ Box(glyphs[1]) # <<5, 7, 6, 8>>
    /\ LET cs == Corners(glyphs, glyphs[1], 1)
       IN  Box(glyphs[1])[1] # SetMin({c[1] : c \in cs})

(***************************************************************************)
(* C9.  Bounds union law: after recalc_bounds a glyph with components,     *)
(* none of which has USE_MY_METRICS set, has as its box the smallest box   *)
(* around the transformed boxes of all its components, where the box of a  *)
(* component is the box the referenced glyph has after the same call (the  *)
(* tight box of its points), mapped by the component's transformation.     *)
(***************************************************************************)
C9_UnionLaw ==
    Recalculated =>
        \A i \in DOMAIN glyphs :
            /\ has_components(glyphs[i])
            /\ \A k \in DOMAIN glyphs[i].components : ~HasMetricsFlag(glyphs[i], k)
            => LET cs == AllCorners(glyphs, glyphs[i])
               IN  /\ Box(glyphs[i]) = << SetMin({c[1] : c \in cs}), SetMin({c[2] : c \in cs}),
                                          SetMax({c[1] : c \in cs}), SetMax({c[2] : c \in cs}) >>
                   /\ \A k \in DOMAIN glyphs[i].components :
                         LET r == Referenced(glyphs, glyphs[i].components[k])
                         IN  ~has_components(r) /\ Box(r) = TightBox(r)

\* glyph 0 had a nested composite and a stale box; its three flattened
\* components reference glyphs whose stored boxes were stale
C9_Witness ==
    /\ Recalculated
    /\ pre # glyphs
    /\ Len(glyphs[1].components) = 3
    /\ \A k \in 1..3 : ~HasMetricsFlag(glyphs[1], k)
    /\ \E k \in 1..3 : Box(Referenced(pre, glyphs[1].components[k])) = <<9, 9, 9, 9>>
    /\ Box(pre[1]) = <<5, 7, 6, 8>>
    /\ Box(glyphs[1]) # <<5, 7, 6, 8>>

(***************************************************************************)
(* C10.  Simple-glyph pass: after recalc_bounds the box of a glyph without *)
(* components holds every point of its contours and each side of it goes   *)
(* through a point; with no points all four bounds are 0.                  *)
(***************************************************************************)
C10_TightBox ==
    Recalculated =>
        \A i \in DOMAIN glyphs :
            ~has_components(glyphs[i]) =>
                LET g == glyphs[i]
                    pts == PointsOf(g)
                IN  /\ \A pt \in pts : /\ g.xMin <= pt.x /\ pt.x <= g.xMax
                                       /\ g.yMin <= pt.y /\ pt.y <= g.yMax
                    /\ pts # {} =>
                          /\ \E pt \in pts : pt.x = g.xMin
                          /\ \E pt \in pts : pt.x = g.xMax
                          /\ \E pt \in pts : pt.y = g.yMin
                          /\ \E pt \in pts : pt.y = g.yMax
                    /\ pts = {} => Box(g) = <<0, 0, 0, 0>>

\* a glyph with points on several contours whose stored box was stale, a
\* glyph with a single point, and a glyph that lost its components to the
\* depth guard and has no points
C10_Witness ==
    /\ Recalculated
    /\ \E i \in DOMAIN glyphs :
          /\ Len(glyphs[i].contours) = 2
          /\ Box(pre[i]) = <<9, 9, 9, 9>>
          /\ Box(glyphs[i]) = <<-2, -1, 3, 2>>
    /\ has_components(pre[1]) /\ ~has_components(glyphs[1])
    /\ Box(glyphs[1]) = <<0, 0, 0, 0>>

(***************************************************************************)
(* The state machine of the codec: a glyph is serialized, the bytes are    *)
(* deserialized, and the glyph that came back is serialized again.         *)
(***************************************************************************)
CodecState(phase, g, bytes, back, again) ==
    [phase |-> phase, glyph |-> g, bytes |-> bytes, back |-> back, again |-> again]

NoRead == Read(FALSE, 0, EmptyGlyph)

\* coordinates next to each other, a short step apart and a long step apart
CodecPoints ==
    { Point(x, y, on) : x \in {0, 20, -300}, y \in {0, 300}, on \in BOOLEAN }

\* every way to cut a list of points into contours that are not empty
RECURSIVE Cuts(_)
Cuts(pts) ==
    IF Len(pts) = 1 THEN { <<pts>> }
    ELSE LET shorter == Cuts(SubSeq(pts, 1, Len(pts) - 1))
             last == pts[Len(pts)]
         IN  { Append(cs, <<last>>) : cs \in shorter }
             \cup { [cs EXCEPT ![Len(cs)] = Append(@, last)] : cs \in shorter }

CodecContours ==
    UNION { Cuts(pts) : pts \in UNION { [1..n -> CodecPoints] : n \in 1..MaxPoints } }

\* simple glyphs with one contour at least, without instructions or with
\* the overlap flag and instructions; the stored box is written and read as
\* it is stored
CodecGlyphs ==
    { Glyph(cs, <<>>, ov, -300, 20, 0, 300, IF ov THEN <<7, 255>> ELSE <<>>) :
        cs \in CodecContours, ov \in BOOLEAN }
    \cup { TestGlyph }

CodecInit ==
    /\ codec \in { CodecState("glyph", g, <<>>, NoRead, <<>>) : g \in CodecGlyphs }
    /\ reader = NoReader
    /\ gvar = NoGvar
    /\ glyphs = <<>>
    /\ pre = <<>>
    /\ op = "new"
    /\ status = "ok"
    /\ arg = <<0, 0>>
    /\ flat = NoFlat
    /\ deepest = 0

\* otspec::ser::to_bytes(&glyph), of the glyph drawn and of the glyph that
\* came back
CallToBytes ==
    /\ \/ /\ codec.phase = "glyph"
          /\ codec' = [codec EXCEPT !.phase = "bytes", !.bytes = EncodeGlyph(codec.glyph)]
       \/ /\ codec.phase = "back" /\ codec.back.ok
          /\ codec' = [codec EXCEPT !.phase = "again", !.again = EncodeGlyph(codec.back.v)]
    /\ UNCHANGED <<glyphs, pre, op, status, arg, flat, deepest, reader, gvar>>

\* otspec::de::from_bytes::<Glyph>(&bytes)
CallGlyphFromBytes ==
    /\ codec.phase = "bytes"
    /\ codec' = [codec EXCEPT !.phase = "back", !.back = DecodeGlyph(codec.bytes, 0)]
    /\ UNCHANGED <<glyphs, pre, op, status, arg, flat, deepest, reader, gvar>>

CodecNext == CallToBytes \/ CallGlyphFromBytes

CodecSpec == CodecInit /\ [][CodecNext]_vars

(***************************************************************************)
(* C1.  Round trip of the glyph codec: the bytes of a simple glyph decode  *)
(* to a glyph equal to it, all bytes read; the glyph decoded from these    *)
(* bytes encodes to the same bytes; and the glyph and the bytes of the     *)
(* test glyf_de are each the image of the other.                           *)
(***************************************************************************)
C1_RoundTrip ==
    /\ codec.phase \in {"back", "again"} =>
          /\ codec.back.ok
          /\ codec.back.v = codec.glyph
          /\ codec.back.p = Len(codec.bytes)
    /\ codec.phase = "again" => codec.again = codec.bytes
    /\ codec.phase # "none" /\ codec.phase # "glyph" /\ codec.glyph = TestGlyph =>
          codec.bytes = TestBytes
    /\ codec.phase = "back" /\ codec.bytes = TestBytes => codec.back.v = TestGlyph

\* a glyph of two contours with the overlap flag, instructions, a short
\* delta, two long deltas and a zero delta has made the whole round
C1_Witness ==
    /\ codec.phase = "again"
    /\ codec.again = codec.bytes
    /\ codec.back.v = codec.glyph
    /\ codec.glyph.overlap
    /\ codec.glyph.contours = << <<Point(20, 300, TRUE)>>, <<Point(-300, 300, FALSE)>> >>
    /\ codec.glyph.instructions = <<7, 255>>

(***************************************************************************)
(* The state machine of table construction: a caller holds bytes made of   *)
(* glyph records, perhaps cut short, a reader somewhere in them and a list *)
(* of offsets, and calls from_rc or from_bytes.                            *)
(***************************************************************************)
\* the glyphs whose records are in the bytes
RecordGlyphs ==
    { Glyph(<< <<Point(1, 2, TRUE), Point(3, -1, FALSE)>>, <<Point(-300, 0, TRUE)>> >>,
            <<>>, FALSE, -300, 3, -1, 2, <<>>),
      Glyph(<< <<Point(0, 4, TRUE)>> >>, <<>>, TRUE, 0, 0, 4, 4, <<7>>) }

RecordLists == UNION { [1..n -> RecordGlyphs] : n \in 1..MaxRecords }

\* the byte offset of record k of the list
RecordStart(recs, k) == Len(Concat([j \in 1..(k - 1) |-> EncodeGlyph(recs[j])]))

\* the records one after the other, without the last `cut` bytes
RecordBytes(recs, cut) ==
    LET all == Concat([j \in DOMAIN recs |-> EncodeGlyph(recs[j])])
    IN  SubSeq(all, 1, Len(all) - cut)

\* the entries a list of offsets is made of: None, the start of a record,
\* and the end of the bytes
Entries(recs, cut) ==
    { None }
    \cup { Some(RecordStart(recs, k)) : k \in DOMAIN recs }
    \cup { Some(Len(RecordBytes(recs, cut))) }

ReaderState(phase, recs, c, offsets, ret) ==
    [phase |-> phase, recs |-> recs, c |-> c, loca_offsets |-> offsets, ret |-> ret]

NoReturn == Returned("none", <<>>, 0)

\* the lists of offsets over the bytes of recs
OffsetLists(recs, cut) == UNION { [1..n -> Entries(recs, cut)] : n \in 0..MaxOffsets }

\* the bytes are whole or lack their last byte; the reader is at one of the
\* positions `ats`
ReaderInputs(ats) ==
    UNION { { ReaderState("new", recs, [input |-> RecordBytes(recs, cut), ptr |-> at],
                          offsets, NoReturn) : offsets \in OffsetLists(recs, cut) }
            : recs \in RecordLists, cut \in {0, 1}, at \in ats }

ReaderInit ==
    /\ reader \in ReaderInputs({0, 5})
    /\ codec = NoCodec
    /\ gvar = NoGvar
    /\ glyphs = <<>>
    /\ pre = <<>>
    /\ op = "new"
    /\ status = "ok"
    /\ arg = <<0, 0>>
    /\ flat = NoFlat
    /\ deepest = 0

\* from_rc(&mut c, loca_offsets): the reader is the caller's, and is left
\* where from_rc leaves it
CallFromRc ==
    /\ reader.phase = "new"
    /\ LET ret == from_rc(reader.c, reader.loca_offsets) IN
          reader' = [reader EXCEPT !.phase = "from_rc", !.ret = ret]
    /\ UNCHANGED <<glyphs, pre, op, status, arg, flat, deepest, codec, gvar>>

\* from_bytes(&c.input, loca_offsets): the reader is made inside the call
CallFromBytes ==
    /\ reader.phase = "new"
    /\ LET ret == from_bytes(reader.c.input, reader.loca_offsets) IN
          reader' = [reader EXCEPT !.phase = "from_bytes", !.ret = ret]
    /\ UNCHANGED <<glyphs, pre, op, status, arg, flat, deepest, codec, gvar>>

ReaderNext == CallFromRc \/ CallFromBytes

ReaderSpec == ReaderInit /\ [][ReaderNext]_vars

\* the record of the bytes that starts at offset o
RecordAt(recs, o) == recs[CHOOSE k \in DOMAIN recs : RecordStart(recs, k) = o]

\* the bytes of every record an offset of the list points at are all there
AllThere(r) ==
    \A i \in DOMAIN r.loca_offsets :
        r.loca_offsets[i] # None =>
            \E k \in DOMAIN r.recs :
                /\ RecordStart(r.recs, k) = r.loca_offsets[i][1]
                /\ RecordStart(r.recs, k) + Len(EncodeGlyph(r.recs[k])) <= Len(r.c.input)

(***************************************************************************)
(* C2.  Table construction keeps glyph index equal to position in the      *)
(* offset list: when from_rc or from_bytes returns Ok, the table has one   *)
(* glyph for each entry of loca_offsets, in order; for None the glyph has  *)
(* no contours, no components, no instructions, overlap false and a zero   *)
(* box; for Some(o) it is the glyph whose record is at byte o.  They       *)
(* return Ok exactly when all records pointed at are there in full.        *)
(***************************************************************************)
C2_GlyphPerOffset ==
    reader.phase \in {"from_rc", "from_bytes"} =>
        /\ reader.ret.result = "Ok" <=> AllThere(reader)
        /\ reader.ret.result = "Ok" =>
              /\ Len(reader.ret.glyphs) = Len(reader.loca_offsets)
              /\ \A i \in DOMAIN reader.loca_offsets :
                    LET g == reader.ret.glyphs[i] IN
                    IF reader.loca_offsets[i] = None
                    THEN /\ is_empty(g)
                         /\ g.contours = <<>> /\ g.components = <<>>
                         /\ g.instructions = <<>> /\ ~g.overlap
                         /\ g.xMin = 0 /\ g.xMax = 0 /\ g.yMin = 0 /\ g.yMax = 0
                    ELSE g = RecordAt(reader.recs, reader.loca_offsets[i][1])

\* the second record, None and the first record, in that order
C2_Witness ==
    /\ reader.phase = "from_rc"
    /\ reader.ret.result = "Ok"
    /\ Len(reader.recs) = 2 /\ reader.recs[1] # reader.recs[2]
    /\ reader.loca_offsets = << Some(RecordStart(reader.recs, 2)), None, Some(0) >>
    /\ reader.ret.glyphs = << reader.recs[2], EmptyGlyph, reader.recs[1] >>

(***************************************************************************)
(* C3.  from_rc does not disturb the caller's read cursor: whenever        *)
(* from_rc has returned, Ok or Err, the reader is at the position it was   *)
(* at when from_rc was called.                                             *)
(***************************************************************************)
C3_CursorRestored ==
    reader.phase = "from_rc" => reader.ret.ptr = reader.c.ptr

\* what the code does keep: when from_rc returns Ok the reader is at the
\* position it was called with
C3_RestoredOnOk ==
    reader.phase = "from_rc" /\ reader.ret.result = "Ok" => reader.ret.ptr = reader.c.ptr

\* an offset at the end of the bytes: the decode fails and the reader stays
\* where line 48 put it
C3_Moved ==
    /\ reader.phase = "from_rc"
    /\ reader.c.ptr = 0
    /\ reader.loca_offsets = << Some(Len(reader.c.input)) >>
    /\ reader.ret.result = "Err"
    /\ reader.ret.ptr = Len(reader.c.input)

\* ------------------------------------------------------------------------
\* Glyph::insert_explicit_oncurves (glyph.rs, described in spec.md 4.2 and
\* exercised by tests::test_insert_implicit_oncurves)
\* ------------------------------------------------------------------------

\* the longest contour of the enumerated glyphs
MaxContourLen == 3

\* integer division as Rust's `/` on signed integers: towards zero
TruncDiv2(n) == IF n >= 0 THEN n \div 2 ELSE -((-n) \div 2)

\* the synthesized point between two off-curve points
ImpliedOnCurve(a, b) == Point(TruncDiv2(a.x + b.x), TruncDiv2(a.y + b.y), TRUE)

\* a contour with the implied point written out between every two adjacent
\* off-curve points
RECURSIVE ExpandContour(_)
ExpandContour(c) ==
    IF Len(c) < 2 THEN c
    ELSE IF ~c[1].on_curve /\ ~c[2].on_curve
         THEN <<c[1], ImpliedOnCurve(c[1], c[2])>> \o ExpandContour(Tail(c))
         ELSE <<c[1]>> \o ExpandContour(Tail(c))

insert_explicit_oncurves(g) ==
    [g EXCEPT !.contours = [k \in DOMAIN g.contours |-> ExpandContour(g.contours[k])]]

\* the contour of tests::test_insert_implicit_oncurves as it is built
TestContour ==
    << Point(634, 650, TRUE),  Point(634, 160, FALSE), Point(484, -10, FALSE),
       Point(332, -10, TRUE),  Point(181, -10, FALSE), Point(30, 169, FALSE),
       Point(30, 350, TRUE),   Point(30, 531, FALSE),  Point(181, 710, FALSE),
       Point(332, 710, TRUE) >>

\* the contour the test expects, with the implied points left out
TestExpanded_Unexpanded == TestContour

\* the contour the test expects after the call
TestExpanded ==
    << Point(634, 650, TRUE),  Point(634, 160, FALSE), Point(559, 75, TRUE),
       Point(484, -10, FALSE), Point(332, -10, TRUE),  Point(181, -10, FALSE),
       Point(105, 79, TRUE),   Point(30, 169, FALSE),  Point(30, 350, TRUE),
       Point(30, 531, FALSE),  Point(105, 620, TRUE),  Point(181, 710, FALSE),
       Point(332, 710, TRUE) >>

\* the enumerated contours: odd and negative sums of coordinates occur
OncurveContours ==
    UNION {[1..n -> {Point(x, y, on) : x \in {-3, 0, 4}, y \in {-1, 2}, on \in BOOLEAN}] :
              n \in 0..MaxContourLen}

OncurveGlyphs ==
    {Glyph(<<c>>, <<>>, FALSE, -3, 4, -1, 2, <<>>) : c \in OncurveContours}
    \cup {Glyph(<<c, <<Point(0, 2, FALSE), Point(-3, -1, FALSE)>> >>,
                <<>>, TRUE, -3, 4, -1, 2, <<1>>) :
            c \in {d \in OncurveContours : Len(d) = 2}}
    \cup {EmptyGlyph, Glyph(<<TestContour>>, <<>>, FALSE, 30, 634, -10, 710, <<>>)}

OncurveInit ==
    /\ \E g \in OncurveGlyphs : glyphs = <<g>>
    /\ pre = glyphs
    /\ op = "new"
    /\ status = "ok"
    /\ arg = 0
    /\ flat = NoFlat
    /\ deepest = 0
    /\ codec = NoCodec
    /\ reader = NoReader
    /\ gvar = NoGvar

\* glyph.insert_explicit_oncurves(), at most twice on the same glyph
CallInsertExplicitOncurves ==
    /\ arg < 2
    /\ glyphs' = <<insert_explicit_oncurves(glyphs[1])>>
    /\ pre' = glyphs
    /\ arg' = arg + 1
    /\ op' = "insert_explicit_oncurves"
    /\ UNCHANGED <<status, flat, deepest, codec, reader, gvar>>

OncurveNext == CallInsertExplicitOncurves

OncurveSpec == OncurveInit /\ [][OncurveNext]_vars

\* the adjacent off-curve pairs (j, j+1) of a contour with j + 1 <= i
OffPairsBefore(c, i) ==
    Cardinality({j \in 1..(Len(c) - 1) : j + 1 <= i /\ ~c[j].on_curve /\ ~c[j + 1].on_curve})

OffPairs(c) == OffPairsBefore(c, Len(c))

\* m is s / 2 cut towards zero
IsTruncatedHalf(m, s) ==
    /\ 2 * m \in {s - 1, s, s + 1}
    /\ (s >= 0 => 0 <= 2 * m /\ 2 * m <= s)
    /\ (s <= 0 => s <= 2 * m /\ 2 * m <= 0)

\* new is old with one on-curve midpoint between every two adjacent
\* off-curve points and nothing else changed
Expanded(old, new) ==
    /\ Len(new) = Len(old) + OffPairs(old)
    /\ \A i \in 1..Len(old) : new[i + OffPairsBefore(old, i)] = old[i]
    /\ \A j \in 1..(Len(old) - 1) :
          (~old[j].on_curve /\ ~old[j + 1].on_curve) =>
              LET m == new[j + OffPairsBefore(old, j) + 1] IN
                  /\ m.on_curve
                  /\ IsTruncatedHalf(m.x, old[j].x + old[j + 1].x)
                  /\ IsTruncatedHalf(m.y, old[j].y + old[j + 1].y)

\* C11: after insert_explicit_oncurves every contour is the one before the
\* call with one on-curve point, at the truncated integer midpoint, between
\* every two adjacent off-curve points; the original points keep their values
\* and order, the length grows by the number of such pairs, nothing else of
\* the glyph changes, a second call changes nothing, and the contour of
\* tests::test_insert_implicit_oncurves becomes the contour the test expects.
C11_ExplicitOncurves ==
    op = "insert_explicit_oncurves" =>
        /\ Len(glyphs[1].contours) = Len(pre[1].contours)
        /\ \A k \in DOMAIN pre[1].contours :
              Expanded(pre[1].contours[k], glyphs[1].contours[k])
        /\ [glyphs[1] EXCEPT !.contours = <<>>] = [pre[1] EXCEPT !.contours = <<>>]
        /\ (arg = 2 => glyphs = pre)
        /\ (pre[1].contours = <<TestContour>> => glyphs[1].contours = <<TestExpanded>>)

\* a first call that inserted a point whose truncated midpoint is not the
\* floored one, and the second call on its result
C11_Witness ==
    /\ op = "insert_explicit_oncurves"
    /\ arg = 2
    /\ \E k \in DOMAIN glyphs[1].contours : \E j \in 1..(Len(glyphs[1].contours[k]) - 2) :
          LET c == glyphs[1].contours[k] IN
              /\ ~c[j].on_curve /\ c[j + 1].on_curve /\ ~c[j + 2].on_curve
              /\ c[j].x + c[j + 2].x = -3
              /\ c[j + 1].x = -1

(***************************************************************************)
(* gvar: GvarVisitor::visit_seq (gvar.rs).  A table is its leading bytes   *)
(* followed by `pad` zero bytes, so that tables longer than 64K can be     *)
(* described.  Unsigned 32-bit fields are kept below 2^31.                 *)
(***************************************************************************)

\* the largest axisCount, sharedTupleCount and glyphCount of the enumerated
\* tables
MaxAxes == 2
MaxTuples == 2
MaxGlyphCount == 2

\* let offset_base: usize = 20
offset_base == 20

\* one more than the largest u16
U16Range == 65536

\* the divisor of a 2.14 fixed-point coordinate
F2Dot14One == 16384

GvarTable(bytes, pad) == [bytes |-> bytes, pad |-> pad]

TableLen(t) == Len(t.bytes) + t.pad

\* the byte at 0-based position p < TableLen(t)
TableByte(t, p) == IF p < Len(t.bytes) THEN t.bytes[p + 1] ELSE 0

TableU16(t, p) == TableByte(t, p) * 256 + TableByte(t, p + 1)

TableU32(t, p) == TableU16(t, p) * U16Range + TableU16(t, p + 2)

\* read_field!(seq, GvarHeader, ..): the eight fields, or an error when the
\* table is shorter than the header
ReadGvarHeader(t) ==
    IF TableLen(t) < 20 THEN Read(FALSE, 0, <<>>)
    ELSE Read(TRUE, 20,
              [majorVersion |-> TableU16(t, 0),
               minorVersion |-> TableU16(t, 2),
               axisCount |-> TableU16(t, 4),
               sharedTupleCount |-> TableU16(t, 6),
               sharedTuplesOffset |-> TableU32(t, 8),
               glyphCount |-> TableU16(t, 12),
               flags |-> TableU16(t, 14),
               glyphVariationDataArrayOffset |-> TableU32(t, 16)])

\* read_field_counted!(seq, n, ..) for elements of `width` bytes
ReadCounted(t, p, n, width) ==
    IF p + n * width > TableLen(t) THEN Read(FALSE, p, <<>>)
    ELSE Read(TRUE, p + n * width,
              [k \in 1..n |-> IF width = 2 THEN TableU16(t, p + 2 * (k - 1))
                              ELSE TableU32(t, p + 4 * (k - 1))])

\* a product computed in u16: a build with overflow checks panics when it
\* does not fit, a build without them keeps the low 16 bits
MulU16(a, b, build) ==
    IF a * b < U16Range THEN [ok |-> TRUE, v |-> a * b]
    ELSE IF build = "debug" THEN [ok |-> FALSE, v |-> 0]
    ELSE [ok |-> TRUE, v |-> (a * b) % U16Range]

\* what visit_seq has done when it stops: the result, the line it stopped
\* at, and the locals it had computed by then
GvarReturn(result, at, core, offs, tuples) ==
    [result |-> result, at |-> at, core |-> core, dataOffsets |-> offs,
     sharedTuples |-> tuples]

\* the offsets when line 44 was not passed: no u32 is negative
NoOffsets == <<-1>>

\* one coordinate: *i as f32 / 16384.0, exact for every i16
F2Dot14(i) == [num |-> i, den |-> F2Dot14One]

\* for i in 0..glyphCount: the slice remainder[offset..] of every glyph
GlyphVariationLoop(core, offs, tuples, rlen) ==
    LET sums == [i \in 1..core.glyphCount |-> offs[i] + core.glyphVariationDataArrayOffset]
        under == {i \in 1..core.glyphCount : sums[i] < 20}
        beyond == {i \in 1..core.glyphCount : sums[i] >= 20 /\ sums[i] - 20 > rlen}
    IN  IF under \cup beyond = {} THEN GvarReturn("Ok", 87, core, offs, tuples)
        ELSE IF SetMin(under \cup beyond) \in under
             THEN GvarReturn("panic", 80, core, offs, <<>>)
             ELSE GvarReturn("panic", 84, core, offs, <<>>)

\* the tuples read by the while loop from `start` (an index of remainder) up
\* to `start + n`, remainder being the bytes of t from position p
ReadSharedTuples(t, core, offs, p, start, n) ==
    LET axis_count == core.axisCount
        rlen == TableLen(t) - p
        iters == IF n = 0 THEN 0 ELSE (n + 2 * axis_count - 1) \div (2 * axis_count)
    IN  IF iters > 0 /\ start + 2 * axis_count * iters > rlen
        THEN GvarReturn("panic", 62, core, offs, <<>>)
        ELSE GlyphVariationLoop(core, offs,
                 [k \in 1..iters |-> [a \in 1..axis_count |->
                     F2Dot14(ToI16(TableU16(t, p + start + 2 * axis_count * (k - 1) + 2 * (a - 1))))]],
                 rlen)

\* lines 57-75: shared_tuple_start, shared_tuple_end and the loop
SharedTuples(t, core, offs, p, build) ==
    LET half == MulU16(core.sharedTupleCount, core.axisCount, build)
        n == MulU16(half.v, 2, build)
        off == core.sharedTuplesOffset
    IN  IF off < offset_base /\ build = "debug" THEN GvarReturn("panic", 58, core, offs, <<>>)
        ELSE IF ~half.ok \/ ~n.ok THEN GvarReturn("panic", 60, core, offs, <<>>)
        ELSE IF off >= offset_base
        THEN ReadSharedTuples(t, core, offs, p, off - offset_base, n.v)
        \* without overflow checks the start wraps to 2^64 - (20 - off): the
        \* end is above it when n < 20 - off and wraps below it otherwise
        ELSE IF 0 < n.v /\ n.v < offset_base - off
        THEN GvarReturn("panic", 62, core, offs, <<>>)
        ELSE GlyphVariationLoop(core, offs, <<>>, TableLen(t) - p)

\* (x * 2).into(), with x and 2 of type u16, as line 48 has it
Doubled(x, build) == MulU16(x, 2, build)

\* lines 44-51: the data offsets, of 16 bits and halved, or of 32 bits
DataOffsets(t, core, build) ==
    IF ~HasBit(core.flags, 1)
    THEN LET r == ReadCounted(t, 20, core.glyphCount, 2) IN
         IF ~r.ok THEN GvarReturn("Err", 47, core, NoOffsets, <<>>)
         ELSE IF \E k \in DOMAIN r.v : ~Doubled(r.v[k], build).ok
         THEN GvarReturn("panic", 48, core, NoOffsets, <<>>)
         ELSE SharedTuples(t, core, [k \in DOMAIN r.v |-> Doubled(r.v[k], build).v],
                           r.p, build)
    ELSE LET r == ReadCounted(t, 20, core.glyphCount, 4) IN
         IF ~r.ok THEN GvarReturn("Err", 50, core, NoOffsets, <<>>)
         ELSE SharedTuples(t, core, r.v, r.p, build)

visit_seq(t, build) ==
    LET h == ReadGvarHeader(t) IN
        IF ~h.ok THEN GvarReturn("Err", 43, <<>>, NoOffsets, <<>>)
        ELSE DataOffsets(t, h.v, build)

\* binary_gvar of tests::gvar_de
TestGvar ==
    << 0, 1, 0, 0, 0, 1, 0, 0, 0, 0, 0, 26, 0, 2,
       0, 0, 0, 0, 0, 26, 0, 0, 0, 0, 0, 22, 128, 1,
       0, 10, 0, 33, 128, 0, 32, 0, 0, 6, 53, 48, 73, 69,
       0, 16, 116, 64, 0, 132, 3, 75, 46, 61, 0, 64, 1, 32,
       129, 10, 248, 3, 3, 248, 248, 28, 28, 248, 59, 59, 21, 131 >>

U32Bytes(n) == U16Bytes(n \div U16Range) \o U16Bytes(n % U16Range)

\* the header of a table of version 1.0
HeaderBytes(axes, tuples, tuplesOffset, glyphCount, flags, arrayOffset) ==
    U16Bytes(1) \o U16Bytes(0) \o U16Bytes(axes) \o U16Bytes(tuples)
    \o U32Bytes(tuplesOffset) \o U16Bytes(glyphCount) \o U16Bytes(flags)
    \o U32Bytes(arrayOffset)

\* the coordinates stored in the enumerated tables, all different
StoredCoords == <<16384, -16384, 8192, -1, 1, -8192, 12288, -12288, 4096>>

TupleBytes(axes, tuples) ==
    Concat([k \in 1..(axes * tuples) |-> I16Bytes(StoredCoords[k])])

\* the glyph variation data of the enumerated tables
GlyphData == <<128, 1, 0, 10>>

\* the stored offsets: small ones, and one whose double needs 17 bits
StoredOffsets(flags) == IF flags = 0 THEN {0, 2, 32768} ELSE {0, 4, 70000}

OffsetBytes(flags, offs) ==
    Concat([k \in DOMAIN offs |-> IF flags = 0 THEN U16Bytes(offs[k]) ELSE U32Bytes(offs[k])])

\* a table laid out as the format has it: header, offsets (one per glyph,
\* with or without the closing one), shared tuples, glyph variation data
LaidOut(axes, tuples, flags, offs, glyphCount, pad) ==
    LET at == 20 + Len(OffsetBytes(flags, offs))
    IN  GvarTable(HeaderBytes(axes, tuples, at, glyphCount, flags, at + 2 * axes * tuples)
                  \o OffsetBytes(flags, offs) \o TupleBytes(axes, tuples) \o GlyphData, pad)

LaidOutWith(flags) ==
    {LaidOut(axes, tuples, flags, SubSeq(offs, 1, glyphCount + closing), glyphCount, pad) :
        axes \in 1..MaxAxes, tuples \in 0..MaxTuples,
        glyphCount \in 0..MaxGlyphCount, closing \in {0, 1}, pad \in {0, 140000},
        offs \in [1..(MaxGlyphCount + 1) -> StoredOffsets(flags)]}

\* tables with a field that no layout has: a shared tuple offset inside the
\* header, more coordinate bytes than 16 bits count, glyph data inside the
\* header, a table cut short
OddTables ==
    {GvarTable(HeaderBytes(1, tuples, 18, 0, 0, 20) \o GlyphData, 0) : tuples \in 0..MaxTuples}
    \cup {GvarTable(HeaderBytes(256, 128, 20, 0, 0, 20), U16Range)}
    \cup {GvarTable(HeaderBytes(1, 0, 22, 1, 0, 12) \o U16Bytes(2) \o GlyphData, 0)}
    \cup {GvarTable(SubSeq(TestGvar, 1, n), 0) : n \in {0, 19, 20, 23}}
    \cup {GvarTable(HeaderBytes(1, 0, 24, 1, 1, 24) \o U16Bytes(0), 0)}

GvarTables ==
    LaidOutWith(0) \cup LaidOutWith(1) \cup OddTables \cup {GvarTable(TestGvar, 0)}

GvarState(phase, table, build, ret) ==
    [phase |-> phase, table |-> table, build |-> build, ret |-> ret]

GvarInit ==
    /\ gvar \in {GvarState("new", t, build, GvarReturn("none", 0, <<>>, NoOffsets, <<>>)) :
                    t \in GvarTables, build \in {"debug", "release"}}
    /\ glyphs = <<>>
    /\ pre = <<>>
    /\ op = "new"
    /\ status = "ok"
    /\ arg = <<0, 0>>
    /\ flat = NoFlat
    /\ deepest = 0
    /\ codec = NoCodec
    /\ reader = NoReader

\* otspec::de::from_bytes::<gvar>(table)
CallVisitSeq ==
    /\ gvar.phase = "new"
    /\ gvar' = GvarState("done", gvar.table, gvar.build, visit_seq(gvar.table, gvar.build))
    /\ UNCHANGED <<glyphs, pre, op, status, arg, flat, deepest, codec, reader>>

GvarNext == CallVisitSeq

GvarSpec == GvarInit /\ [][GvarNext]_vars

\* the table holds the header and one stored offset per glyph
OffsetsStored(t) ==
    /\ TableLen(t) >= 20
    /\ TableLen(t) >= 20 + TableU16(t, 12) * (IF TableU16(t, 14) % 2 = 0 THEN 2 ELSE 4)

\* the data offset of glyph i as the format defines it
DataOffsetOf(t, i) ==
    IF TableU16(t, 14) % 2 = 0 THEN 2 * TableU16(t, 20 + 2 * (i - 1))
    ELSE TableU32(t, 20 + 4 * (i - 1))

\* C12: once visit_seq has read the per-glyph offsets, every decoded data
\* offset is twice the stored 16-bit value, as a 32-bit number, when bit 0 of
\* flags is clear, and the stored 32-bit value when it is set.
C12_DoubledOffsets ==
    (gvar.phase = "done" /\ OffsetsStored(gvar.table)) =>
        /\ gvar.ret.dataOffsets # NoOffsets
        /\ Len(gvar.ret.dataOffsets) = TableU16(gvar.table, 12)
        /\ \A i \in 1..TableU16(gvar.table, 12) :
              gvar.ret.dataOffsets[i] = DataOffsetOf(gvar.table, i)

\* offsets of 32 bits are taken as stored, and so are the doubles that fit 16 bits
C12_WithinSixteenBits ==
    (/\ gvar.phase = "done"
     /\ OffsetsStored(gvar.table)
     /\ \A i \in 1..TableU16(gvar.table, 12) :
           TableU16(gvar.table, 14) % 2 = 0 => TableU16(gvar.table, 20 + 2 * (i - 1)) < 32768)
    => C12_DoubledOffsets

\* a stored 16-bit offset of 0x8000 decoded as 0 by a build without overflow
\* checks, in a table long enough for the offset it stands for
C12_Wrapped ==
    /\ gvar.phase = "done"
    /\ gvar.build = "release"
    /\ gvar.ret.result = "Ok"
    /\ TableU16(gvar.table, 14) % 2 = 0
    /\ \E i \in 1..TableU16(gvar.table, 12) :
          /\ TableU16(gvar.table, 20 + 2 * (i - 1)) = 32768
          /\ gvar.ret.dataOffsets[i] = 0

\* the same table in a build with overflow checks: a panic at line 48
C12_Panicked ==
    /\ gvar.phase = "done"
    /\ gvar.build = "debug"
    /\ gvar.ret.result = "panic"
    /\ gvar.ret.at = 48

\* the bytes one stored offset takes
OffsetWidth(t) == IF TableU16(t, 14) % 2 = 0 THEN 2 ELSE 4

\* the byte range of the shared tuples as the header gives it
TuplesFrom(t) == TableU32(t, 8)
TuplesUpTo(t) == TableU32(t, 8) + 2 * TableU16(t, 4) * TableU16(t, 6)

\* a table whose offsets, tuples and glyph data lie where its header says:
\* tuples after the offsets and inside the table, 16-bit offsets whose double
\* fits 16 bits, glyph data inside the table
WellFormed(t) ==
    /\ OffsetsStored(t)
    /\ TableU16(t, 4) >= 1
    /\ TuplesFrom(t) >= 20 + OffsetWidth(t) * TableU16(t, 12)
    /\ TuplesUpTo(t) <= TableLen(t)
    /\ \A i \in 1..TableU16(t, 12) :
          /\ OffsetWidth(t) = 2 => TableU16(t, 20 + 2 * (i - 1)) < 32768
          /\ TableU32(t, 16) + DataOffsetOf(t, i) >= 20
          /\ TableU32(t, 16) + DataOffsetOf(t, i) + OffsetWidth(t) * TableU16(t, 12) <= TableLen(t)

\* the sharedTupleCount tuples of axisCount coordinates stored from byte
\* `from` of the table
TuplesAt(t, from) ==
    [k \in 1..TableU16(t, 6) |-> [a \in 1..TableU16(t, 4) |->
        [num |-> ToI16(TableU16(t, from + 2 * TableU16(t, 4) * (k - 1) + 2 * (a - 1))),
         den |-> 16384]]]

\* C13: visit_seq returns exactly sharedTupleCount tuples of axisCount
\* coordinates, tuple k being the big-endian i16 values at byte
\* sharedTuplesOffset + 2 * axisCount * k of the table, each over 16384,
\* whatever glyphCount, the offset width and sharedTupleCount are.
C13_SharedTuples ==
    (gvar.phase = "done" /\ WellFormed(gvar.table)) =>
        /\ gvar.ret.result = "Ok"
        /\ gvar.ret.sharedTuples = TuplesAt(gvar.table, TuplesFrom(gvar.table))

\* with no glyph, or no shared tuple, and tuple bytes that 16 bits count,
\* the tuples are the stored ones
C13_WithoutOffsets ==
    (/\ gvar.phase = "done"
     /\ WellFormed(gvar.table)
     /\ TableU16(gvar.table, 12) = 0 \/ TableU16(gvar.table, 6) = 0
     /\ 2 * TableU16(gvar.table, 4) * TableU16(gvar.table, 6) < U16Range)
    => C13_SharedTuples

\* a well-formed table with glyphs and shared tuples, decoded without error
\* to tuples that are not the stored ones: they are the bytes found as far
\* after sharedTuplesOffset as the offset array is long
C13_Shifted ==
    /\ gvar.phase = "done"
    /\ WellFormed(gvar.table)
    /\ gvar.ret.result = "Ok"
    /\ TableU16(gvar.table, 12) > 0
    /\ TableU16(gvar.table, 6) > 0
    /\ gvar.ret.sharedTuples # TuplesAt(gvar.table, TuplesFrom(gvar.table))
    /\ gvar.ret.sharedTuples =
          TuplesAt(gvar.table,
                   TuplesFrom(gvar.table) + OffsetWidth(gvar.table) * TableU16(gvar.table, 12))

\* every table with glyphs and shared tuples is read that far off, or the
\* read leaves the table
C13_AlwaysShifted ==
    (/\ gvar.phase = "done"
     /\ WellFormed(gvar.table)
     /\ TableU16(gvar.table, 12) > 0
     /\ TableU16(gvar.table, 6) > 0)
    => \/ gvar.ret.result = "panic"
       \/ gvar.ret.sharedTuples =
             TuplesAt(gvar.table,
                      TuplesFrom(gvar.table) + OffsetWidth(gvar.table) * TableU16(gvar.table, 12))

(***************************************************************************)
(* C14.  Frame of flatten_components: the table has the same glyphs in the *)
(* same order, and of each glyph only the component list can differ:       *)
(* contours, instructions, overlap and the box are as before.  A glyph     *)
(* without components is left exactly as it was.  Only the glyphs pushed   *)
(* to needs_flattening are written, and a composite whose flattened list   *)
(* equals its list is not among them.  (After flatten_components the       *)
(* variable flat holds the ids that were pushed.)                          *)
(***************************************************************************)
C14_Frame ==
    op = "flatten_components" =>
        /\ Len(glyphs) = Len(pre)
        /\ \A id \in DOMAIN pre :
              /\ [glyphs[id] EXCEPT !.components = <<>>] = [pre[id] EXCEPT !.components = <<>>]
              /\ ~has_components(pre[id]) =>
                    glyphs[id] = pre[id] /\ (id - 1) \notin Range(flat)
              /\ (id - 1) \notin Range(flat) => glyphs[id] = pre[id]
              /\ (status = "ok" /\ has_components(pre[id])) =>
                    LET fl == flat_components(pre, pre[id], 0).comps IN
                        /\ glyphs[id].components = fl
                        /\ (id - 1) \in Range(flat) <=> fl # pre[id].components
        /\ status = "panic" => glyphs = pre /\ flat = <<>>

\* a table with a nested composite that was rewritten, a composite that was
\* flat already and was not written, and a glyph without components that
\* has contours, instructions and a box
C14_Witness ==
    /\ op = "flatten_components" /\ status = "ok"
    /\ flat = <<0>>
    /\ glyphs[1] # pre[1]
    /\ has_components(pre[2]) /\ glyphs[2] = pre[2]
    /\ \E id \in DOMAIN pre :
          /\ ~has_components(pre[id])
          /\ pre[id].contours # <<>>
          /\ Box(pre[id]) # <<0, 0, 0, 0>>

\* every component of every glyph references a glyph of the table
AllInRange(gs) ==
    \A i \in DOMAIN gs : \A k \in DOMAIN gs[i].components :
        gs[i].components[k].glyph_index < Len(gs)

(***************************************************************************)
(* C15.  recalc_bounds never takes the union over an empty component list: *)
(* on a table whose component indices are all in range it completes; a     *)
(* glyph whose component list is empty after the flattening, declared so   *)
(* or emptied because its references run in a cycle, has the box the       *)
(* simple pass gives it and is passed by in the composite pass, so the     *)
(* reduce and unwrap are reached only with one component or more.          *)
(***************************************************************************)
C15_NoEmptyUnion ==
    (op = "recalc_bounds" /\ AllInRange(pre)) =>
        /\ status = "ok"
        /\ \A id \in DOMAIN glyphs :
              glyphs[id].components = <<>> =>
                  /\ Box(glyphs[id]) = TightBox(glyphs[id])
                  /\ CompositeBounds([i \in DOMAIN glyphs |-> bounds_rect(glyphs[i])],
                                     glyphs[id])
                        = [ok |-> TRUE, glyph |-> glyphs[id]]
        /\ \A id \in DOMAIN pre :
              (has_components(pre[id]) /\ flat_components(pre, pre[id], 0).comps = <<>>)
                  => glyphs[id].components = <<>>

\* two glyphs that reference each other and a glyph declared without
\* components: the flattening emptied the two, which got the box of no
\* points, and the third got the box of its points
C15_Witness ==
    /\ op = "recalc_bounds" /\ status = "ok"
    /\ OnlyEachOther(pre, 0, 1)
    /\ glyphs[1].components = <<>> /\ glyphs[2].components = <<>>
    /\ Box(pre[1]) # <<0, 0, 0, 0>>
    /\ Box(glyphs[1]) = <<0, 0, 0, 0>>
    /\ \E id \in DOMAIN pre :
          /\ pre[id].components = <<>>
          /\ Box(pre[id]) # TightBox(pre[id])
          /\ Box(glyphs[id]) = TightBox(pre[id])

(***************************************************************************)
(* C16.  flat_components and flatten_components complete without a crash   *)
(* on every table and glyph, whatever the component indices are: a glyph   *)
(* that references itself, glyphs that reference each other, an index at   *)
(* or beyond the number of glyphs.                                         *)
(***************************************************************************)
C16_NoCrash ==
    op \in {"flat_components", "flatten_components"} => status = "ok"

\* with every index in range the two complete, cycles included
C16_InRangeCompletes ==
    (op \in {"flat_components", "flatten_components"} /\ AllInRange(pre)) => status = "ok"

\* flatten_components stopped by the lookup of line 72 on a table whose
\* glyph 0 has a component with the number of glyphs as its index, and left
\* the table as it was
C16_Panicked ==
    /\ op = "flatten_components"
    /\ status = "panic"
    /\ \E k \in DOMAIN pre[1].components : pre[1].components[k].glyph_index = Len(pre)
    /\ glyphs = pre

\* flat_components on a glyph that references itself, completed
C16_SelfReferenceCompleted ==
    /\ op = "flat_components" /\ status = "ok"
    /\ arg = <<0, 0>>
    /\ OnlyEachOther(pre, 0, 0)
    /\ flat = <<>>

====
